---- MODULE Spec2Model ----
(***************************************************************************)
(* State-machine model of the two OpenCL command line tools of ocltools:   *)
(*   oclq  (platform / device enumerator and printer)                      *)
(*   oclc  (kernel compiler driver)                                        *)
(* The OpenCL driver, the C library (getopt_long, fopen) and the file      *)
(* system are the environment: their answers are drawn with \E from small  *)
(* sets at the step that calls them.                                       *)
(***************************************************************************)
EXTENDS Integers, Sequences, FiniteSets, TLC

VARIABLES
    tool,          \* which executable runs: "oclq" or "oclc"
    argv,          \* argv[1..argc-1]
    pc,            \* position in main / callee
    help, verbose, version,   \* flags set by GetOpts
    outfile,       \* oclc: std::string outfile
    infiles,       \* oclc: std::vector<std::string> infiles
    stdout,        \* lines written to std::cout (label part of each line)
    stderr,        \* lines written to std::cerr / stderr
    exitCode,      \* process exit status, meaningful when pc = "exited"
    exitAt,        \* the position at which the process ended ("" while it runs)
    driverCalled,  \* has any OpenCL entry point been called
    lastRet,       \* status returned by the most recent driver call
    num_platforms, \* oclq main / oclc BuildProgram
    i,             \* oclq main: platform loop index (1-based)
    device_num,    \* oclq main
    j,             \* oclq main: device loop index (1-based)
    k,             \* index of the next attribute line inside PrintPlatform / PrintDevice
    lastQ,         \* record of the most recent attribute accessor call
    max_work_item_dimensions,  \* oclq PrintDevice
    work_item_sizes,           \* oclq PrintDevice
    sources,       \* oclc main: sizes of the loaded source buffers
    fopens,        \* log of fopen calls: [path, mode, ok]
    num_devices,   \* oclc BuildProgram
    num_program_devices,       \* oclc BuildProgram
    programSizes,  \* oclc BuildProgram: byte size of each device binary
    binaries,      \* oclc BuildProgram: per-device binaries as the driver holds them
    binary,        \* oclc: the vector<unsigned char> handed to SaveBinary
    files          \* files created by the run: path -> bytes written

flagVars == <<help, verbose, version, outfile, infiles>>
ioVars   == <<stdout, stderr, exitCode, exitAt>>
driverVars == <<driverCalled, lastRet>>
qVars    == <<num_platforms, i, device_num, j, k, lastQ,
              max_work_item_dimensions, work_item_sizes>>
cVars    == <<sources, fopens, num_devices, num_program_devices,
              programSizes, binaries, binary, files>>
vars     == <<tool, argv, pc, flagVars, ioVars, driverVars, qVars, cVars>>

(***************************************************************************)
(* Bounds of the model.                                                    *)
(***************************************************************************)
MaxArgs      == 3   \* longest command line (without argv[0])
MaxPlatforms == 2   \* most platforms the driver reports
MaxDevices   == 1   \* most devices the driver reports for one platform
MaxSize      == 1   \* largest byte size the driver reports for a string attribute
MaxDims      == 1   \* largest CL_DEVICE_MAX_WORK_ITEM_DIMENSIONS
MaxBinaries  == 2   \* most device binaries the driver reports for a program
MaxBinLen    == 1   \* largest byte size of a device binary

(***************************************************************************)
(* Program constants.                                                      *)
(***************************************************************************)
EXIT_SUCCESS  == 0
EXIT_FAILURE  == 1
gVersionMajor == 1
gVersionMinor == 0

\* Status codes a driver call returns here: CL_SUCCESS, a code of the error
\* table and a code outside of it.
Statuses == {0, -30, -9999}

\* OCLT::ErrorMessageMap (errors.hpp / errors.cpp): status code -> text.
ErrorMessageMap ==
    (-1 :> "CL_DEVICE_NOT_FOUND") @@ (-11 :> "CL_BUILD_PROGRAM_FAILURE")
        @@ (-30 :> "CL_INVALID_VALUE")

\* What IfErrorThenExit(error) does: nothing for 0, otherwise one line on
\* cerr and exit(EXIT_FAILURE).  The two tools carry identical copies.
oclq_IfErrorThenExit(error) ==
    IF error = 0
    THEN [exit |-> FALSE, err |-> <<>>, code |-> EXIT_SUCCESS]
    ELSE [exit |-> TRUE,
          err  |-> IF error \in DOMAIN ErrorMessageMap
                   THEN <<"error : " \o ErrorMessageMap[error]>>
                   ELSE <<"error : unkown error">>,
          code |-> EXIT_FAILURE]

\* IfErrorThenExit that reports nothing and returns.
oclc_IfErrorThenExit_Ignored(error) ==
    [exit |-> FALSE, err |-> <<>>, code |-> EXIT_SUCCESS]

oclc_IfErrorThenExit(error) ==
    IF error = 0
    THEN [exit |-> FALSE, err |-> <<>>, code |-> EXIT_SUCCESS]
    ELSE [exit |-> TRUE,
          err  |-> IF error \in DOMAIN ErrorMessageMap
                   THEN <<"error : " \o ErrorMessageMap[error]>>
                   ELSE <<"error : unkown error">>,
          code |-> EXIT_FAILURE]

(***************************************************************************)
(* Command lines and getopt_long.                                          *)
(***************************************************************************)
\* Words a command line of oclq / oclc is made of.  "-oA" and "-oB" are -o
\* with the argument attached, "" is an empty argument.
TokensQ == {"-h", "--help", "-v", "-V"}
TokensC == {"-h", "-o", "-oA", "-oB", "a.cl", ""}

CommandLines(T) == UNION {[1..n -> T] : n \in 0..MaxArgs}

\* The option character a word stands for ("" : the word is no option).
OptChar(t) ==
    CASE t \in {"-h", "--help"}    -> "h"
      [] t \in {"-v", "--verbose"} -> "v"
      [] t \in {"-V", "--version"} -> "V"
      [] t \in {"-o", "-oA", "-oB"} -> "o"
      [] OTHER -> ""

\* The argument attached to an option word ("" : none attached).
Attached(t) == CASE t = "-oA" -> "A" [] t = "-oB" -> "B" [] OTHER -> ""

getoptDiag == "getopt: option requires an argument -- 'o'"

\* The loop of GetOpts around getopt_long (GNU: options are recognised
\* anywhere before "--", the other words are the positional arguments left
\* from optind on).  n is the next word, st the flags so far.
RECURSIVE oclc_GetOptsScan(_, _, _, _)
oclc_GetOptsScan(av, n, dd, st) ==
    IF n > Len(av) THEN st
    ELSE LET t == av[n] IN
      IF dd THEN
        oclc_GetOptsScan(av, n + 1, dd, [st EXCEPT !.infiles = Append(@, t)])
      ELSE IF t = "--" THEN oclc_GetOptsScan(av, n + 1, TRUE, st)
      ELSE IF OptChar(t) = "h" THEN
        oclc_GetOptsScan(av, n + 1, dd, [st EXCEPT !.help = TRUE])
      ELSE IF OptChar(t) = "v" THEN
        oclc_GetOptsScan(av, n + 1, dd, [st EXCEPT !.verbose = TRUE])
      ELSE IF OptChar(t) = "V" THEN
        oclc_GetOptsScan(av, n + 1, dd, [st EXCEPT !.version = TRUE])
      ELSE IF OptChar(t) = "o" THEN
        IF Attached(t) # "" THEN
          oclc_GetOptsScan(av, n + 1, dd, [st EXCEPT !.outfile = Attached(t)])
        ELSE IF n + 1 <= Len(av) THEN
          oclc_GetOptsScan(av, n + 2, dd, [st EXCEPT !.outfile = av[n + 1]])
        ELSE  \* '?': missing argument, getopt_long reports it itself
          oclc_GetOptsScan(av, n + 1, dd, [st EXCEPT !.diag = Append(@, getoptDiag)])
      ELSE
        oclc_GetOptsScan(av, n + 1, dd, [st EXCEPT !.infiles = Append(@, t)])

oclc_GetOpts(av) ==
    oclc_GetOptsScan(av, 1, FALSE,
        [help |-> FALSE, verbose |-> FALSE, version |-> FALSE,
         outfile |-> "", infiles |-> <<>>, diag |-> <<>>])

RECURSIVE oclq_GetOptsScan(_, _, _, _)
oclq_GetOptsScan(av, n, dd, st) ==
    IF n > Len(av) THEN st
    ELSE LET t == av[n] IN
      IF dd THEN oclq_GetOptsScan(av, n + 1, dd, st)
      ELSE IF t = "--" THEN oclq_GetOptsScan(av, n + 1, TRUE, st)
      ELSE IF OptChar(t) = "h" THEN
        oclq_GetOptsScan(av, n + 1, dd, [st EXCEPT !.help = TRUE])
      ELSE IF OptChar(t) = "v" THEN
        oclq_GetOptsScan(av, n + 1, dd, [st EXCEPT !.verbose = TRUE])
      ELSE IF OptChar(t) = "V" THEN
        oclq_GetOptsScan(av, n + 1, dd, [st EXCEPT !.version = TRUE])
      ELSE oclq_GetOptsScan(av, n + 1, dd, st)

\* GetOpts without its case 'V'.
oclq_GetOpts_NoVersion(av) ==
    [oclq_GetOptsScan(av, 1, FALSE,
        [help |-> FALSE, verbose |-> FALSE, version |-> FALSE])
     EXCEPT !.version = FALSE]

oclq_GetOpts(av) ==
    oclq_GetOptsScan(av, 1, FALSE,
        [help |-> FALSE, verbose |-> FALSE, version |-> FALSE])

(***************************************************************************)
(* Initial state: the process has been started with some command line.     *)
(***************************************************************************)
NoQuery ==
    [fn |-> "", attr |-> "", probed |-> FALSE, probeRet |-> 0, size |-> 0,
     fetched |-> FALSE, fetchRet |-> 0, bufSize |-> 0, result |-> 0,
     text |-> "", exit |-> FALSE]

Init ==
    /\ tool \in {"oclq", "oclc"}
    /\ argv \in CommandLines(IF tool = "oclq" THEN TokensQ ELSE TokensC)
    /\ pc = "GetOpts"
    /\ help = FALSE /\ verbose = FALSE /\ version = FALSE
    /\ outfile = "" /\ infiles = <<>>
    /\ stdout = <<>> /\ stderr = <<>> /\ exitCode = 0 /\ exitAt = ""
    /\ driverCalled = FALSE /\ lastRet = 0
    /\ num_platforms = 0 /\ i = 0 /\ device_num = 0 /\ j = 0 /\ k = 0
    /\ lastQ = NoQuery
    /\ max_work_item_dimensions = 0 /\ work_item_sizes = <<>>
    /\ sources = <<>> /\ fopens = <<>>
    /\ num_devices = 0 /\ num_program_devices = 0 /\ programSizes = <<>>
    /\ binaries = <<>> /\ binary = <<>>
    /\ files = <<>>

\* exit(code) after writing the lines err to cerr.
Exit(code, err) ==
    /\ pc' = "exited"
    /\ exitAt' = pc
    /\ exitCode' = code
    /\ stderr' = stderr \o err

Exited == pc = "exited"

\* A driver entry point was called and returned ret.
Driver(ret) == driverCalled' = TRUE /\ lastRet' = ret

(***************************************************************************)
(* oclq: attribute accessors.                                              *)
(***************************************************************************)
\* cl_device_type is a bit field: a value is the set of its bits that are set.
CL_DEVICE_TYPE_DEFAULT     == {0}       \* (1 << 0)
CL_DEVICE_TYPE_CPU         == {1}       \* (1 << 1)
CL_DEVICE_TYPE_GPU         == {2}       \* (1 << 2)
CL_DEVICE_TYPE_ACCELERATOR == {3}       \* (1 << 3)
CL_DEVICE_TYPE_ALL         == 0..31     \* 0xFFFFFFFF

\* OCLT::DeviceTypeNameMap: cl_device_type -> name of the macro.
DeviceTypeNameMap ==
    (CL_DEVICE_TYPE_CPU :> "CL_DEVICE_TYPE_CPU")
        @@ (CL_DEVICE_TYPE_GPU :> "CL_DEVICE_TYPE_GPU")
        @@ (CL_DEVICE_TYPE_ACCELERATOR :> "CL_DEVICE_TYPE_ACCELERATOR")
        @@ (CL_DEVICE_TYPE_ALL :> "CL_DEVICE_TYPE_ALL")
        @@ (CL_DEVICE_TYPE_DEFAULT :> "CL_DEVICE_TYPE_DEFAULT")

\* Device types the driver reports: a CPU, a GPU, and the bit mask CPU|GPU.
DeviceTypes == {CL_DEVICE_TYPE_CPU, CL_DEVICE_TYPE_GPU,
                CL_DEVICE_TYPE_CPU \cup CL_DEVICE_TYPE_GPU}

\* Answers of the driver to one two-phase string query.  The size probe
\* (buffer NULL, length 0) returns `ret` and leaves `size` in the caller's
\* variable (0 before the call).  The fetch into the size-byte buffer, whose
\* first byte the caller set to NUL, returns `fret` and leaves a C string of
\* `len` characters in it: size - 1 characters and the NUL on success,
\* whatever was written before the failure otherwise.
StringAnswers ==
    {a \in [ret : Statuses, size : 0..MaxSize, fret : Statuses, len : 0..MaxSize] :
        IF a.size = 0 THEN a.fret = 0 /\ a.len = 0
        ELSE IF a.fret = 0 THEN a.len = a.size - 1
        ELSE a.len < a.size}

\* What an accessor did: the driver calls it made with their answers, the
\* value it returned, and whether it ended the process instead.
Accessed(x, probed, probeRet, size, fetched, fetchRet, bufSize, result) ==
    [exit |-> x.exit, err |-> x.err, code |-> x.code,
     probed |-> probed, probeRet |-> probeRet, size |-> size,
     fetched |-> fetched, fetchRet |-> fetchRet, bufSize |-> bufSize,
     result |-> result]

NoExit == [exit |-> FALSE, err |-> <<>>, code |-> EXIT_SUCCESS]

\* GetPlatformInfo without the early return on a zero size.
GetPlatformInfo_AlwaysFetch(a) ==
    IF oclq_IfErrorThenExit(a.ret).exit
    THEN Accessed(oclq_IfErrorThenExit(a.ret), TRUE, a.ret, a.size, FALSE, 0, 0, 0)
    ELSE Accessed(NoExit, TRUE, a.ret, a.size, TRUE, a.fret, a.size, a.len)

\* std::string GetPlatformInfo(platform_id, platform_info)
GetPlatformInfo(a) ==
    IF a.size = 0
    THEN Accessed(NoExit, TRUE, a.ret, 0, FALSE, 0, 0, 0)
    ELSE IF oclq_IfErrorThenExit(a.ret).exit
    THEN Accessed(oclq_IfErrorThenExit(a.ret), TRUE, a.ret, a.size, FALSE, 0, 0, 0)
    ELSE Accessed(NoExit, TRUE, a.ret, a.size, TRUE, a.fret, a.size, a.len)

\* std::string GetDeviceInfo(device_id, info)
GetDeviceInfoString(a) ==
    IF a.size = 0
    THEN Accessed(NoExit, TRUE, a.ret, 0, FALSE, 0, 0, 0)
    ELSE IF oclq_IfErrorThenExit(a.ret).exit
    THEN Accessed(oclq_IfErrorThenExit(a.ret), TRUE, a.ret, a.size, FALSE, 0, 0, 0)
    ELSE Accessed(NoExit, TRUE, a.ret, a.size, TRUE, a.fret, a.size, a.len)

\* template<typename T> T GetDeviceInfo(device_id, info): one call into a
\* buffer of sizeof(T) bytes, checked.
GetDeviceInfo(ret, value) ==
    Accessed(oclq_IfErrorThenExit(ret), FALSE, 0, 0, TRUE, ret, 0, value)

\* The name GetDeviceType prints for a device type.
DeviceTypeName(device_type) ==
    IF device_type \in DOMAIN DeviceTypeNameMap
    THEN DeviceTypeNameMap[device_type] ELSE "unknown"

\* std::string GetDeviceType(device_id)
GetDeviceType(ret, device_type) ==
    Accessed(oclq_IfErrorThenExit(ret), FALSE, 0, 0, TRUE, ret, 0,
             Cardinality(device_type))

sizeof_size_t == 8

\* GetDeviceMaxWorkItemSizes without the early return for zero dimensions.
GetDeviceMaxWorkItemSizes_AlwaysQuery(dims, ret) ==
    Accessed(oclq_IfErrorThenExit(ret), FALSE, 0, 0, TRUE, ret,
             sizeof_size_t * dims, dims)

\* GetDeviceMaxWorkItemSizes with a vector one element too long.
GetDeviceMaxWorkItemSizes_OneMore(dims, ret) ==
    IF dims = 0
    THEN Accessed(NoExit, FALSE, 0, 0, FALSE, 0, 0, 0)
    ELSE Accessed(oclq_IfErrorThenExit(ret), FALSE, 0, 0, TRUE, ret,
                  sizeof_size_t * dims, dims + 1)

\* std::vector<size_t> GetDeviceMaxWorkItemSizes(device_id, dims): the
\* returned vector has dims elements; result is its length.
GetDeviceMaxWorkItemSizes(dims, ret) ==
    IF dims = 0
    THEN Accessed(NoExit, FALSE, 0, 0, FALSE, 0, 0, 0)
    ELSE Accessed(oclq_IfErrorThenExit(ret), FALSE, 0, 0, TRUE, ret,
                  sizeof_size_t * dims, dims)

\* The attribute lines of PrintPlatform, in order.
PlatformQueries == <<"CL_PLATFORM_PROFILE", "CL_PLATFORM_VERSION",
    "CL_PLATFORM_NAME", "CL_PLATFORM_VENDOR", "CL_PLATFORM_EXTENSIONS">>

\* The attribute lines of PrintDevice before `if(!verbose) return;`.
BasicQueries == <<
    [attr |-> "CL_DEVICE_TYPE", kind |-> "type"],
    [attr |-> "CL_DEVICE_VENDOR_ID", kind |-> "scalar"],
    [attr |-> "CL_DEVICE_MAX_COMPUTE_UNITS", kind |-> "scalar"],
    [attr |-> "CL_DEVICE_PLATFORM", kind |-> "scalar"],
    [attr |-> "CL_DEVICE_NAME", kind |-> "string"],
    [attr |-> "CL_DEVICE_VENDOR", kind |-> "string"],
    [attr |-> "CL_DEVICE_VERSION", kind |-> "string"],
    [attr |-> "CL_DEVICE_PROFILE", kind |-> "string"],
    [attr |-> "CL_DEVICE_OPENCL_C_VERSION", kind |-> "string"],
    [attr |-> "CL_DRIVER_VERSION", kind |-> "string"],
    [attr |-> "CL_DEVICE_EXTENSIONS", kind |-> "string"] >>

\* The lines after it, printed when verbose.
VerboseQueries == <<
    [attr |-> "CL_DEVICE_MAX_WORK_ITEM_DIMENSIONS", kind |-> "dims"],
    [attr |-> "CL_DEVICE_MAX_WORK_ITEM_SIZES", kind |-> "sizes"],
    [attr |-> "CL_DEVICE_MAX_WORK_GROUP_SIZE", kind |-> "scalar"],
    [attr |-> "CL_DEVICE_PREFERRED_VECTOR_WIDTH_CHAR", kind |-> "scalar"],
    [attr |-> "CL_DEVICE_PREFERRED_VECTOR_WIDTH_SHORT", kind |-> "scalar"],
    [attr |-> "CL_DEVICE_PREFERRED_VECTOR_WIDTH_INT", kind |-> "scalar"],
    [attr |-> "CL_DEVICE_PREFERRED_VECTOR_WIDTH_LONG", kind |-> "scalar"],
    [attr |-> "CL_DEVICE_PREFERRED_VECTOR_WIDTH_FLOAT", kind |-> "scalar"],
    [attr |-> "CL_DEVICE_PREFERRED_VECTOR_WIDTH_DOUBLE", kind |-> "scalar"],
    [attr |-> "CL_DEVICE_PREFERRED_VECTOR_WIDTH_HALF", kind |-> "scalar"],
    [attr |-> "CL_DEVICE_NATIVE_VECTOR_WIDTH_CHAR", kind |-> "scalar"],
    [attr |-> "CL_DEVICE_NATIVE_VECTOR_WIDTH_SHORT", kind |-> "scalar"],
    [attr |-> "CL_DEVICE_NATIVE_VECTOR_WIDTH_INT", kind |-> "scalar"],
    [attr |-> "CL_DEVICE_NATIVE_VECTOR_WIDTH_LONG", kind |-> "scalar"],
    [attr |-> "CL_DEVICE_NATIVE_VECTOR_WIDTH_FLOAT", kind |-> "scalar"],
    [attr |-> "CL_DEVICE_NATIVE_VECTOR_WIDTH_DOUBLE", kind |-> "scalar"],
    [attr |-> "CL_DEVICE_NATIVE_VECTOR_WIDTH_HALF", kind |-> "scalar"],
    [attr |-> "CL_DEVICE_MAX_CLOCK_FREQUENCY", kind |-> "scalar"],
    [attr |-> "CL_DEVICE_ADDRESS_BITS", kind |-> "scalar"],
    [attr |-> "CL_DEVICE_MAX_MEM_ALLOC_SIZE", kind |-> "scalar"],
    [attr |-> "CL_DEVICE_IMAGE_SUPPORT", kind |-> "scalar"],
    [attr |-> "CL_DEVICE_MAX_READ_IMAGE_ARGS", kind |-> "scalar"],
    [attr |-> "CL_DEVICE_IMAGE2D_MAX_WIDTH", kind |-> "scalar"],
    [attr |-> "CL_DEVICE_IMAGE2D_MAX_HEIGHT", kind |-> "scalar"],
    [attr |-> "CL_DEVICE_IMAGE3D_MAX_WIDTH", kind |-> "scalar"],
    [attr |-> "CL_DEVICE_IMAGE3D_MAX_HEIGHT", kind |-> "scalar"],
    [attr |-> "CL_DEVICE_IMAGE3D_MAX_DEPTH", kind |-> "scalar"],
    [attr |-> "CL_DEVICE_MAX_SAMPLERS", kind |-> "scalar"],
    [attr |-> "CL_DEVICE_MAX_PARAMETER_SIZE", kind |-> "scalar"],
    [attr |-> "CL_DEVICE_MEM_BASE_ADDR_ALIGN", kind |-> "scalar"],
    [attr |-> "CL_DEVICE_MIN_DATA_TYPE_ALIGN_SIZE", kind |-> "scalar"],
    [attr |-> "CL_DEVICE_SINGLE_FP_CONFIG", kind |-> "scalar"],
    [attr |-> "CL_DEVICE_GLOBAL_MEM_CACHE_TYPE", kind |-> "scalar"],
    [attr |-> "CL_DEVICE_GLOBAL_MEM_CACHELINE_SIZE", kind |-> "scalar"],
    [attr |-> "CL_DEVICE_GLOBAL_MEM_CACHE_SIZE", kind |-> "scalar"],
    [attr |-> "CL_DEVICE_GLOBAL_MEM_SIZE", kind |-> "scalar"],
    [attr |-> "CL_DEVICE_MAX_CONSTANT_BUFFER_SIZE", kind |-> "scalar"],
    [attr |-> "CL_DEVICE_MAX_CONSTANT_ARGS", kind |-> "scalar"],
    [attr |-> "CL_DEVICE_LOCAL_MEM_TYPE", kind |-> "scalar"],
    [attr |-> "CL_DEVICE_LOCAL_MEM_SIZE", kind |-> "scalar"],
    [attr |-> "CL_DEVICE_ERROR_CORRECTION_SUPPORT", kind |-> "scalar"],
    [attr |-> "CL_DEVICE_HOST_UNIFIED_MEMORY", kind |-> "scalar"],
    [attr |-> "CL_DEVICE_PROFILING_TIMER_RESOLUTION", kind |-> "scalar"],
    [attr |-> "CL_DEVICE_ENDIAN_LITTLE", kind |-> "scalar"],
    [attr |-> "CL_DEVICE_AVAILABLE", kind |-> "scalar"],
    [attr |-> "CL_DEVICE_COMPILER_AVAILABLE", kind |-> "scalar"],
    [attr |-> "CL_DEVICE_EXECUTION_CAPABILITIES", kind |-> "scalar"],
    [attr |-> "CL_DEVICE_QUEUE_PROPERTIES", kind |-> "scalar"] >>

DeviceQueries == BasicQueries \o VerboseQueries

(***************************************************************************)
(* oclq: main.                                                             *)
(***************************************************************************)
IsQ(p) == tool = "oclq" /\ pc = p

QueryRecord(fn, attr, r, text) ==
    [fn |-> fn, attr |-> attr,
     probed |-> r.probed, probeRet |-> r.probeRet, size |-> r.size,
     fetched |-> r.fetched, fetchRet |-> r.fetchRet, bufSize |-> r.bufSize,
     result |-> r.result, text |-> text, exit |-> r.exit]

\* GetOpts(argc, argv, verbose, version, help)
oclq_main_GetOpts ==
    /\ IsQ("GetOpts")
    /\ help' = oclq_GetOpts(argv).help
    /\ verbose' = oclq_GetOpts(argv).verbose
    /\ version' = oclq_GetOpts(argv).version
    /\ pc' = "main_help"
    /\ UNCHANGED <<tool, argv, outfile, infiles, ioVars, driverVars, qVars, cVars>>

oclq_Usage == <<"usage: oclq [options]", "  -v --verbose print detail",
    "  -h --help    print help", "  -V --version print version information">>

\* if(help) { usage; exit(EXIT_SUCCESS); }
oclq_main_help ==
    /\ IsQ("main_help")
    /\ IF help
       THEN /\ stdout' = stdout \o oclq_Usage
            /\ Exit(EXIT_SUCCESS, <<>>)
       ELSE /\ pc' = "main_version"
            /\ UNCHANGED ioVars
    /\ UNCHANGED <<tool, argv, flagVars, driverVars, qVars, cVars>>

oclq_VersionLine ==
    "oclq version " \o ToString(gVersionMajor) \o "." \o ToString(gVersionMinor)

\* if(version) { version line; exit(EXIT_SUCCESS); }
oclq_main_version ==
    /\ IsQ("main_version")
    /\ IF version
       THEN /\ stdout' = Append(stdout, oclq_VersionLine)
            /\ Exit(EXIT_SUCCESS, <<>>)
       ELSE /\ pc' = "CountPlatforms"
            /\ UNCHANGED ioVars
    /\ UNCHANGED <<tool, argv, flagVars, driverVars, qVars, cVars>>

\* The platform count call without its zero check.
oclq_CheckPlatforms_ErrorOnly(ret, n) == oclq_IfErrorThenExit(ret)

\* What main does with the answer (ret, n) of clGetPlatformIDs(0, NULL, &n).
oclq_CheckPlatforms(ret, n) ==
    IF oclq_IfErrorThenExit(ret).exit THEN oclq_IfErrorThenExit(ret)
    ELSE IF n = 0
    THEN [exit |-> TRUE, err |-> <<"there is no OpenCL platform">>,
          code |-> EXIT_FAILURE]
    ELSE [exit |-> FALSE, err |-> <<>>, code |-> EXIT_SUCCESS]

oclq_main_CountPlatforms ==
    /\ IsQ("CountPlatforms")
    /\ \E ret \in Statuses, n \in 0..MaxPlatforms :
         /\ Driver(ret)
         /\ LET r == oclq_CheckPlatforms(ret, n) IN
            IF r.exit
            THEN /\ Exit(r.code, r.err)
                 /\ num_platforms' = IF ret = 0 THEN n ELSE num_platforms
                 /\ UNCHANGED <<stdout, i, device_num, j, k, lastQ,
                                max_work_item_dimensions, work_item_sizes>>
            ELSE /\ num_platforms' = n
                 /\ pc' = "GetPlatforms"
                 /\ UNCHANGED <<ioVars, i, device_num, j, k, lastQ,
                                max_work_item_dimensions, work_item_sizes>>
    /\ UNCHANGED <<tool, argv, flagVars, cVars>>

\* platforms = new cl_platform_id[num_platforms]; clGetPlatformIDs(...); i = 0
\* (the driver reports through &num_platforms the count it reported before)
oclq_main_GetPlatforms ==
    /\ IsQ("GetPlatforms")
    /\ \E ret \in Statuses :
         /\ Driver(ret)
         /\ LET r == oclq_IfErrorThenExit(ret) IN
            IF r.exit
            THEN /\ Exit(r.code, r.err)
                 /\ UNCHANGED <<stdout, qVars>>
            ELSE /\ i' = 1
                 /\ pc' = "PlatformLoop"
                 /\ UNCHANGED <<ioVars, num_platforms, device_num, j, k, lastQ,
                                max_work_item_dimensions, work_item_sizes>>
    /\ UNCHANGED <<tool, argv, flagVars, cVars>>

\* for(i < num_platforms): enter PrintPlatform and print its two head lines;
\* after the loop: delete[] platforms; return 0.
oclq_main_PlatformLoop ==
    /\ IsQ("PlatformLoop")
    /\ IF i <= num_platforms
       THEN /\ stdout' = stdout \o <<"---- platform", "ID: ">>
            /\ k' = 1
            /\ pc' = "PrintPlatform"
            /\ UNCHANGED <<stderr, exitCode, exitAt>>
       ELSE /\ Exit(EXIT_SUCCESS, <<>>)
            /\ UNCHANGED <<stdout, k>>
    /\ device_num' = 0      \* cl_uint device_num = 0, local to the loop body
    /\ UNCHANGED <<tool, argv, flagVars, driverVars, num_platforms, i,
                   j, lastQ, max_work_item_dimensions,
                   work_item_sizes, cVars>>

\* One attribute line of PrintPlatform: cout << label << GetPlatformInfo(..)
PrintPlatform ==
    /\ IsQ("PrintPlatform")
    /\ \E a \in StringAnswers :
         /\ Driver(IF a.size = 0 \/ a.ret # 0 THEN a.ret ELSE a.fret)
         /\ LET r == GetPlatformInfo(a) IN
            IF r.exit
            THEN /\ Exit(r.code, r.err)
                 /\ UNCHANGED <<stdout, k>>
                 /\ lastQ' = QueryRecord("GetPlatformInfo", PlatformQueries[k], r, "")
            ELSE /\ stdout' = Append(stdout, PlatformQueries[k] \o ": ")
                 /\ lastQ' = QueryRecord("GetPlatformInfo", PlatformQueries[k], r, "")
                 /\ IF k < Len(PlatformQueries)
                    THEN k' = k + 1 /\ pc' = pc
                    ELSE k' = 0 /\ pc' = "CountDevices"
                 /\ UNCHANGED <<stderr, exitCode, exitAt>>
    /\ UNCHANGED <<tool, argv, flagVars, num_platforms, i,
                   device_num, j, max_work_item_dimensions, work_item_sizes,
                   cVars>>

\* The device count call with a fatal zero check, as for platforms.
oclq_CheckDevices_ZeroFatal(ret, n) ==
    IF oclq_IfErrorThenExit(ret).exit \/ n = 0 THEN "exit" ELSE "devices"

\* What main does with the answer (ret, n) of the device count call:
\* "exit", "continue" (next platform) or "devices".
oclq_CheckDevices(ret, n) ==
    IF oclq_IfErrorThenExit(ret).exit THEN "exit"
    ELSE IF n = 0 THEN "continue"
    ELSE "devices"

oclq_main_CountDevices ==
    /\ IsQ("CountDevices")
    /\ \E ret \in Statuses, n \in 0..MaxDevices :
         /\ Driver(ret)
         /\ LET r == oclq_CheckDevices(ret, n) IN
            CASE r = "exit" ->
                   /\ Exit(oclq_IfErrorThenExit(ret).code, oclq_IfErrorThenExit(ret).err)
                   /\ UNCHANGED <<stdout, i, device_num>>
              [] r = "continue" ->
                   /\ device_num' = n
                   /\ i' = i + 1
                   /\ pc' = "PlatformLoop"
                   /\ UNCHANGED ioVars
              [] OTHER ->
                   /\ device_num' = n
                   /\ pc' = "GetDevices"
                   /\ UNCHANGED <<ioVars, i>>
    /\ UNCHANGED <<tool, argv, flagVars, num_platforms, j, k,
                   lastQ, max_work_item_dimensions, work_item_sizes, cVars>>

\* devices = new cl_device_id[device_num]; clGetDeviceIDs(...); j = 0
\* (the driver reports through &device_num the count it reported before)
oclq_main_GetDevices ==
    /\ IsQ("GetDevices")
    /\ \E ret \in Statuses :
         /\ Driver(ret)
         /\ LET r == oclq_IfErrorThenExit(ret) IN
            IF r.exit
            THEN /\ Exit(r.code, r.err)
                 /\ UNCHANGED <<stdout, j>>
            ELSE /\ j' = 1
                 /\ pc' = "DeviceLoop"
                 /\ UNCHANGED ioVars
    /\ UNCHANGED <<tool, argv, flagVars, num_platforms, i,
                   device_num, k, lastQ, max_work_item_dimensions,
                   work_item_sizes, cVars>>

\* for(j < device_num): enter PrintDevice and print its two head lines;
\* after the loop: delete[] devices; ++i.
oclq_main_DeviceLoop ==
    /\ IsQ("DeviceLoop")
    /\ IF j <= device_num
       THEN /\ stdout' = stdout \o <<"-- device", "ID: ">>
            /\ k' = 1
            /\ pc' = "PrintDevice"
            /\ UNCHANGED i
       ELSE /\ i' = i + 1
            /\ pc' = "PlatformLoop"
            /\ UNCHANGED <<stdout, k>>
    \* the locals of the PrintDevice call that returned are gone
    /\ max_work_item_dimensions' = 0
    /\ work_item_sizes' = <<>>
    /\ UNCHANGED <<tool, argv, flagVars, stderr, exitCode, exitAt, driverVars,
                   num_platforms, device_num, j, lastQ, cVars>>

\* The line after line k of PrintDevice: the next line, or the return to
\* main's device loop (after the basic lines unless verbose, or at the end).
PrintDevice_Next ==
    IF (k = Len(BasicQueries) /\ ~verbose) \/ k = Len(DeviceQueries)
    THEN k' = 0 /\ j' = j + 1 /\ pc' = "DeviceLoop"
    ELSE k' = k + 1 /\ j' = j /\ pc' = pc

\* The shared tail of a PrintDevice line whose accessor answered r.
PrintDevice_Line(fn, r, text) ==
    /\ lastQ' = QueryRecord(fn, DeviceQueries[k].attr, r, text)
    /\ IF r.exit
       THEN /\ Exit(r.code, r.err)
            /\ UNCHANGED <<stdout, j, k>>
       ELSE /\ stdout' = Append(stdout, DeviceQueries[k].attr \o ": ")
            /\ PrintDevice_Next
            /\ UNCHANGED <<stderr, exitCode, exitAt>>

AtDeviceLine(kind) ==
    /\ IsQ("PrintDevice")
    /\ k \in 1..Len(DeviceQueries)
    /\ DeviceQueries[k].kind = kind

PrintDevice_Type ==
    /\ AtDeviceLine("type")
    /\ \E ret \in Statuses, t \in DeviceTypes :
         /\ Driver(ret)
         /\ PrintDevice_Line("GetDeviceType", GetDeviceType(ret, t),
                          DeviceTypeName(t))
    /\ UNCHANGED <<tool, argv, flagVars, num_platforms, i,
                   device_num, max_work_item_dimensions, work_item_sizes, cVars>>

PrintDevice_Scalar ==
    /\ AtDeviceLine("scalar")
    /\ \E ret \in Statuses :
         /\ Driver(ret)
         /\ PrintDevice_Line("GetDeviceInfo<T>", GetDeviceInfo(ret, 1), "")
    /\ UNCHANGED <<tool, argv, flagVars, num_platforms, i,
                   device_num, max_work_item_dimensions, work_item_sizes, cVars>>

PrintDevice_String ==
    /\ AtDeviceLine("string")
    /\ \E a \in StringAnswers :
         /\ Driver(IF a.size = 0 \/ a.ret # 0 THEN a.ret ELSE a.fret)
         /\ PrintDevice_Line("GetDeviceInfo", GetDeviceInfoString(a), "")
    /\ UNCHANGED <<tool, argv, flagVars, num_platforms, i,
                   device_num, max_work_item_dimensions, work_item_sizes, cVars>>

\* max_work_item_dimensions = GetDeviceInfo<cl_uint>(.., CL_DEVICE_MAX_WORK_ITEM_DIMENSIONS)
PrintDevice_Dims ==
    /\ AtDeviceLine("dims")
    /\ \E ret \in Statuses, d \in 0..MaxDims :
         /\ Driver(ret)
         /\ PrintDevice_Line("GetDeviceInfo<T>", GetDeviceInfo(ret, d), "")
         /\ max_work_item_dimensions' =
              IF GetDeviceInfo(ret, d).exit THEN max_work_item_dimensions ELSE d
    /\ UNCHANGED <<tool, argv, flagVars, num_platforms, i,
                   device_num, work_item_sizes, cVars>>

\* work_item_sizes = GetDeviceMaxWorkItemSizes(device_id, max_work_item_dimensions)
PrintDevice_Sizes ==
    /\ AtDeviceLine("sizes")
    /\ \E ret \in Statuses :
         /\ IF max_work_item_dimensions = 0
            THEN UNCHANGED driverVars ELSE Driver(ret)
         /\ LET r == GetDeviceMaxWorkItemSizes(max_work_item_dimensions, ret) IN
            /\ PrintDevice_Line("GetDeviceMaxWorkItemSizes", r, "")
            /\ work_item_sizes' =
                 IF r.exit THEN work_item_sizes ELSE [n \in 1..r.result |-> 1]
    /\ UNCHANGED <<tool, argv, flagVars, num_platforms, i,
                   device_num, max_work_item_dimensions, cVars>>

NextQ ==
    \/ oclq_main_GetOpts
    \/ oclq_main_help
    \/ oclq_main_version
    \/ oclq_main_CountPlatforms
    \/ oclq_main_GetPlatforms
    \/ oclq_main_PlatformLoop
    \/ PrintPlatform
    \/ oclq_main_CountDevices
    \/ oclq_main_GetDevices
    \/ oclq_main_DeviceLoop
    \/ PrintDevice_Type
    \/ PrintDevice_Scalar
    \/ PrintDevice_String
    \/ PrintDevice_Dims
    \/ PrintDevice_Sizes

(***************************************************************************)
(* oclc: main, LoadSource, BuildProgram, SaveBinary.                       *)
(***************************************************************************)
IsC(p) == tool = "oclc" /\ pc = p

\* Byte sizes a kernel source file can have.
SourceSizes == {0, 1}

\* strerror(errno) after a failed fopen.
StrErrors == {"No such file or directory", "Permission denied"}

\* Can fopen(path, ..) succeed at all: the empty path never names a file.
CanOpen(path) == IF path = "" THEN {FALSE} ELSE {TRUE, FALSE}

\* v[0] of an empty std::vector is undefined: a build without container
\* checks forms the address and goes on, a checked build aborts.
Aborted == 128 + 6
IndexOutcomes(empty) == IF empty THEN {"go", "abort"} ELSE {"go"}

\* The bytes the driver holds as the binary of program device d.
DeviceBinary(d, size) == [n \in 1..size |-> d]

\* GetOpts(argc, argv, verbose, version, help, outfile, infiles)
oclc_main_GetOpts ==
    /\ IsC("GetOpts")
    /\ help' = oclc_GetOpts(argv).help
    /\ verbose' = oclc_GetOpts(argv).verbose
    /\ version' = oclc_GetOpts(argv).version
    /\ outfile' = oclc_GetOpts(argv).outfile
    /\ infiles' = oclc_GetOpts(argv).infiles
    /\ stderr' = stderr \o oclc_GetOpts(argv).diag
    /\ pc' = "main_help"
    /\ UNCHANGED <<tool, argv, stdout, exitCode, exitAt, driverVars, qVars, cVars>>

oclc_Usage == <<"usage: oclc [options] kernel.cl", "  -o file      output file name",
    "  -v --verbose print detail", "  -h --help    print help",
    "  -V --version print version information">>

\* if(help) { usage; exit(EXIT_SUCCESS); }
oclc_main_help ==
    /\ IsC("main_help")
    /\ IF help
       THEN /\ stdout' = stdout \o oclc_Usage
            /\ Exit(EXIT_SUCCESS, <<>>)
       ELSE /\ pc' = "main_infiles"
            /\ UNCHANGED ioVars
    /\ UNCHANGED <<tool, argv, flagVars, driverVars, qVars, cVars>>

\* main without the check of infiles.
oclc_CheckInfiles_Skipped(files_) == NoExit

\* if(infiles.empty()) { "no input file"; exit(EXIT_FAILURE); }
oclc_CheckInfiles(files_) ==
    IF files_ = <<>>
    THEN [exit |-> TRUE, err |-> <<"no input file">>, code |-> EXIT_FAILURE]
    ELSE NoExit

oclc_main_infiles ==
    /\ IsC("main_infiles")
    /\ LET r == oclc_CheckInfiles(infiles) IN
       IF r.exit
       THEN /\ Exit(r.code, r.err)
            /\ UNCHANGED stdout
       ELSE /\ pc' = "LoadSource"
            /\ UNCHANGED ioVars
    /\ UNCHANGED <<tool, argv, flagVars, driverVars, qVars, cVars>>

\* One turn of main's loop over infiles: LoadSource(*itr, source).
LoadSource ==
    /\ IsC("LoadSource")
    /\ LET infile == infiles[Len(sources) + 1] IN
       \E ok \in CanOpen(infile) :
         /\ fopens' = Append(fopens, [path |-> infile, mode |-> "rb", ok |-> ok])
         /\ IF ~ok
            THEN /\ \E e \in StrErrors : Exit(EXIT_FAILURE, <<e \o ": " \o infile>>)
                 /\ UNCHANGED sources
            ELSE /\ \E size \in SourceSizes : sources' = Append(sources, size)
                 /\ pc' = IF Len(sources) + 1 = Len(infiles)
                          THEN "BuildProgram" ELSE pc
                 /\ UNCHANGED <<stderr, exitCode, exitAt>>
    /\ UNCHANGED <<tool, argv, flagVars, stdout, driverVars, qVars,
                   num_devices, num_program_devices, programSizes, binaries,
                   binary, files>>

\* BuildProgram, the loop filling srcPtrs / srcSizes: &sources[i][0].
BuildProgram_Sources ==
    /\ IsC("BuildProgram")
    /\ \E o \in IndexOutcomes(\E n \in 1..Len(sources) : sources[n] = 0) :
         IF o = "abort"
         THEN Exit(Aborted, <<>>)
         ELSE pc' = "bp_platform" /\ UNCHANGED <<stderr, exitCode, exitAt>>
    /\ UNCHANGED <<tool, argv, flagVars, stdout, driverVars, qVars, cVars>>

\* What BuildProgram does with the answer (ret, n) of a counting driver call
\* whose zero count is fatal with the message msg.
oclc_CheckCount(ret, n, msg) ==
    IF oclc_IfErrorThenExit(ret).exit THEN oclc_IfErrorThenExit(ret)
    ELSE IF n = 0
    THEN [exit |-> TRUE, err |-> <<msg>>, code |-> EXIT_FAILURE]
    ELSE NoExit

\* clGetPlatformIDs(1, &platform_id, &num_platforms) and the zero check
oclc_CheckPlatforms(ret, n) == oclc_CheckCount(ret, n, "no platform on system")

BuildProgram_Platform ==
    /\ IsC("bp_platform")
    /\ \E ret \in Statuses, n \in 0..MaxPlatforms :
         /\ Driver(ret)
         /\ LET r == oclc_CheckPlatforms(ret, n) IN
            IF r.exit
            THEN /\ Exit(r.code, r.err)
                 /\ num_platforms' = IF ret = 0 THEN n ELSE num_platforms
            ELSE /\ num_platforms' = n
                 /\ pc' = "bp_count_devices"
                 /\ UNCHANGED <<stderr, exitCode, exitAt>>
    /\ UNCHANGED <<tool, argv, flagVars, stdout, i, device_num, j, k, lastQ,
                   max_work_item_dimensions, work_item_sizes, cVars>>

\* The device count call without its zero check.
oclc_CheckDevices_ErrorOnly(ret, n) == oclc_IfErrorThenExit(ret)

\* clGetDeviceIDs(platform_id, CL_DEVICE_TYPE_ALL, 0, NULL, &num_devices) and the zero check
oclc_CheckDevices(ret, n) == oclc_CheckCount(ret, n, "no device on system")

BuildProgram_CountDevices ==
    /\ IsC("bp_count_devices")
    /\ \E ret \in Statuses, n \in 0..MaxDevices :
         /\ Driver(ret)
         /\ LET r == oclc_CheckDevices(ret, n) IN
            IF r.exit
            THEN /\ Exit(r.code, r.err)
                 /\ num_devices' = IF ret = 0 THEN n ELSE num_devices
            ELSE /\ num_devices' = n
                 /\ pc' = "bp_devices"
                 /\ UNCHANGED <<stderr, exitCode, exitAt>>
    /\ UNCHANGED <<tool, argv, flagVars, stdout, qVars, sources,
                   fopens, num_program_devices, programSizes, binaries, binary,
                   files>>

\* A driver call whose only outcome is its status, checked by
\* IfErrorThenExit; `to` is the position after it.
oclc_CheckedCall(to) ==
    /\ \E ret \in Statuses :
         /\ Driver(ret)
         /\ LET r == oclc_IfErrorThenExit(ret) IN
            IF r.exit
            THEN Exit(r.code, r.err)
            ELSE pc' = to /\ UNCHANGED <<stderr, exitCode, exitAt>>
    /\ UNCHANGED <<tool, argv, flagVars, stdout, qVars, cVars>>

\* device_ids(num_devices); clGetDeviceIDs(.., num_devices, &device_ids[0], NULL)
BuildProgram_Devices ==
    /\ IsC("bp_devices")
    /\ oclc_CheckedCall("bp_context")

\* clCreateContext(..., &errcode_ret); IfErrorThenExit(errcode_ret)
BuildProgram_Context ==
    /\ IsC("bp_context")
    /\ oclc_CheckedCall("bp_program")

\* clCreateProgramWithSource(..., &errcode_ret); IfErrorThenExit(errcode_ret)
BuildProgram_Program ==
    /\ IsC("bp_program")
    /\ oclc_CheckedCall("bp_build")

\* IfErrorThenExit( clBuildProgram(program, 0, NULL, NULL, NULL, NULL) )
BuildProgram_Build ==
    /\ IsC("bp_build")
    /\ oclc_CheckedCall("bp_num_devices")

\* clGetProgramInfo(program, CL_PROGRAM_NUM_DEVICES, ..) and the zero check
oclc_CheckProgramDevices(ret, n) ==
    oclc_CheckCount(ret, n, "no device specific program built")

BuildProgram_NumDevices ==
    /\ IsC("bp_num_devices")
    /\ \E ret \in Statuses, n \in 0..MaxBinaries :
         /\ Driver(ret)
         /\ LET r == oclc_CheckProgramDevices(ret, n) IN
            IF r.exit
            THEN /\ Exit(r.code, r.err)
                 /\ num_program_devices' = IF ret = 0 THEN n ELSE num_program_devices
            ELSE /\ num_program_devices' = n
                 /\ pc' = "bp_sizes"
                 /\ UNCHANGED <<stderr, exitCode, exitAt>>
    /\ UNCHANGED <<tool, argv, flagVars, stdout, qVars, sources,
                   fopens, num_devices, programSizes, binaries, binary, files>>

\* programSizes(num_program_devices); clGetProgramInfo(.., CL_PROGRAM_BINARY_SIZES, ..)
BuildProgram_Sizes ==
    /\ IsC("bp_sizes")
    /\ \E ret \in Statuses :
       \E sizes \in [1..num_program_devices -> 0..MaxBinLen] :
         /\ Driver(ret)
         /\ LET r == oclc_IfErrorThenExit(ret) IN
            IF r.exit
            THEN Exit(r.code, r.err) /\ UNCHANGED programSizes
            ELSE /\ programSizes' = sizes
                 /\ pc' = "bp_buffers"
                 /\ UNCHANGED <<stderr, exitCode, exitAt>>
    /\ UNCHANGED <<tool, argv, flagVars, stdout, qVars, sources,
                   fopens, num_devices, num_program_devices, binaries, binary,
                   files>>

\* binaries[i].resize(programSizes[i]); binaryPtrs[i] = &binaries[i][0];
\* unsigned char* dataPtr = &binary[0];
BuildProgram_Buffers ==
    /\ IsC("bp_buffers")
    /\ \E o \in IndexOutcomes((\E d \in 1..num_program_devices : programSizes[d] = 0)
                               \/ binary = <<>>) :
         IF o = "abort"
         THEN Exit(Aborted, <<>>) /\ UNCHANGED binaries
         ELSE /\ binaries' = [d \in 1..num_program_devices |->
                                 [n \in 1..programSizes[d] |-> 0]]
              /\ pc' = "bp_binaries"
              /\ UNCHANGED <<stderr, exitCode, exitAt>>
    /\ UNCHANGED <<tool, argv, flagVars, stdout, driverVars, qVars, sources,
                   fopens, num_devices, num_program_devices, programSizes,
                   binary, files>>

\* binary = binaries.back();
RetainedBinary_Last(bins) == bins[Len(bins)]

\* binary = binaries[0];
RetainedBinary(bins) == bins[1]

\* clGetProgramInfo(program, CL_PROGRAM_BINARIES, ..); binary = binaries[0]
BuildProgram_Binaries ==
    /\ IsC("bp_binaries")
    /\ \E ret \in Statuses :
         /\ Driver(ret)
         /\ LET r == oclc_IfErrorThenExit(ret)
                filled == [d \in 1..num_program_devices |->
                              DeviceBinary(d, Len(binaries[d]))]
            IN
            IF r.exit
            THEN /\ Exit(r.code, r.err)
                 /\ UNCHANGED <<binaries, binary, num_platforms, num_devices,
                                programSizes>>
            ELSE /\ binaries' = filled
                 /\ binary' = RetainedBinary(filled)
                 /\ pc' = "main_save"
                 \* BuildProgram returns: its counters and size vector are gone
                 /\ num_platforms' = 0 /\ num_devices' = 0 /\ programSizes' = <<>>
                 /\ UNCHANGED <<stderr, exitCode, exitAt>>
    /\ UNCHANGED <<tool, argv, flagVars, stdout, i, device_num,
                   j, k, lastQ, max_work_item_dimensions, work_item_sizes,
                   sources, fopens, num_program_devices, files>>

\* outfile = "out.clx" whatever -o said.
DefaultOutfile_Always(name) == "out.clx"

\* if( outfile.empty() ) outfile = "out.clx";
DefaultOutfile(name) == IF name = "" THEN "out.clx" ELSE name

\* main: the default output name, SaveBinary(outfile, binary), return 0.
\* SaveBinary: fopen(outfile, "wb") creates or truncates the file, then
\* fwrite(&binary[0], 1, binary.size(), file).
SaveBinary ==
    /\ IsC("main_save")
    /\ outfile' = DefaultOutfile(outfile)
    /\ \E ok \in CanOpen(outfile') :
         /\ fopens' = Append(fopens, [path |-> outfile', mode |-> "wb", ok |-> ok])
         /\ IF ~ok
            THEN /\ \E e \in StrErrors : Exit(EXIT_FAILURE, <<e \o ": " \o outfile'>>)
                 /\ UNCHANGED files
            ELSE /\ files' = (outfile' :> binary) @@ files
                 /\ \E o \in IndexOutcomes(binary = <<>>) :
                      IF o = "abort" THEN Exit(Aborted, <<>>)
                      ELSE Exit(EXIT_SUCCESS, <<>>)
    /\ UNCHANGED <<tool, argv, help, verbose, version, infiles, stdout,
                   driverVars, qVars, sources, num_devices,
                   num_program_devices, programSizes, binaries, binary>>

NextC ==
    \/ oclc_main_GetOpts
    \/ oclc_main_help
    \/ oclc_main_infiles
    \/ LoadSource
    \/ BuildProgram_Sources
    \/ BuildProgram_Platform
    \/ BuildProgram_CountDevices
    \/ BuildProgram_Devices
    \/ BuildProgram_Context
    \/ BuildProgram_Program
    \/ BuildProgram_Build
    \/ BuildProgram_NumDevices
    \/ BuildProgram_Sizes
    \/ BuildProgram_Buffers
    \/ BuildProgram_Binaries
    \/ SaveBinary

Next == NextQ \/ NextC

Spec == Init /\ [][Next]_vars

\* The runs of oclq alone and of oclc alone.
InitQ == Init /\ tool = "oclq"
InitC == Init /\ tool = "oclc"
SpecQ == InitQ /\ [][NextQ]_vars
SpecC == InitC /\ [][NextC]_vars

(***************************************************************************)
(* Properties: the two-phase string accessors of oclq.                     *)
(***************************************************************************)
\* The most recent accessor call was a two-phase string query.
StringQuery == lastQ.fn \in {"GetPlatformInfo", "GetDeviceInfo"}

\* A driver call of the most recent accessor call returned a non-zero status.
FailedCall ==
    \/ lastQ.probed /\ lastQ.probeRet # 0
    \/ lastQ.fetched /\ lastQ.fetchRet # 0

\* C1: in a two-phase string accessor, a non-zero status of the size probe
\* or of the fetch ends the process with a non-zero exit code before the
\* accessor returns.
C1_FailedCallExits ==
    (StringQuery /\ FailedCall) =>
        (lastQ.exit /\ Exited /\ exitCode # EXIT_SUCCESS)

\* C2: in a two-phase string accessor, a probed size of zero makes the
\* accessor return an empty value without issuing the fetch call.
C2_ZeroSizeNoFetch ==
    (StringQuery /\ lastQ.probed /\ lastQ.size = 0) =>
        (~lastQ.fetched /\ lastQ.result = 0 /\ ~lastQ.exit)

\* A device string query whose probe succeeded with size zero has returned
\* and its line has been printed.
C2_Witness ==
    /\ lastQ.fn = "GetDeviceInfo" /\ lastQ.probed
    /\ lastQ.probeRet = 0 /\ lastQ.size = 0
    /\ stdout # <<>> /\ stdout[Len(stdout)] = lastQ.attr \o ": "

(***************************************************************************)
(* Properties: oclc.                                                       *)
(***************************************************************************)
\* main of oclc returned 0.
Succeeded == Exited /\ exitAt = "main_save" /\ exitCode = EXIT_SUCCESS

\* C3: once the build has succeeded and SaveBinary has written the output
\* file, its bytes are exactly the binary of the first program device as
\* the CL_PROGRAM_BINARIES query returned it, and none of another device.
C3_FirstBinarySaved ==
    (exitAt = "main_save" /\ outfile \in DOMAIN files) =>
        /\ files[outfile] = binaries[1]
        /\ files[outfile] = DeviceBinary(1, Len(binaries[1]))
        /\ Succeeded => DOMAIN files = {outfile}

\* A successful run in which the driver reported two non-empty binaries.
C3_Witness ==
    /\ Succeeded
    /\ Len(binaries) = 2
    /\ Len(binaries[1]) > 0 /\ Len(binaries[2]) > 0
    /\ outfile \in DOMAIN files

\* The step at position `at` in which the driver succeeded and reported a
\* count of zero ends the process with exit code 1 and the message msg, and
\* touches nothing else.
ZeroCountFatal(at, zero, msg) ==
    (IsC(at) /\ lastRet' = 0 /\ zero) =>
        /\ pc' = "exited"
        /\ exitCode' = EXIT_FAILURE
        /\ stderr' = Append(stderr, msg)
        /\ UNCHANGED <<stdout, fopens, binaries, binary, files>>

\* C4: in BuildProgram each of zero platforms, zero devices and zero program
\* devices ends the process with exit code 1 and its own message, and no
\* step runs after the process has ended.
C4_ZeroCountsFatal ==
    [][/\ pc # "exited"
       /\ ZeroCountFatal("bp_platform", num_platforms' = 0,
                         "no platform on system")
       /\ ZeroCountFatal("bp_count_devices", num_devices' = 0,
                         "no device on system")
       /\ ZeroCountFatal("bp_num_devices", num_program_devices' = 0,
                         "no device specific program built")]_vars

\* The build succeeded and the driver then reported zero program devices.
C4_Witness ==
    /\ Exited /\ exitAt = "bp_num_devices"
    /\ lastRet = 0 /\ num_program_devices = 0
    /\ exitCode = EXIT_FAILURE
    /\ stderr[Len(stderr)] = "no device specific program built"
    /\ files = <<>>

\* The input files and the help flag GetOpts derives from the command line.
Positional == oclc_GetOpts(argv).infiles
HelpOption == oclc_GetOpts(argv).help

\* oclc ended with "no input file" before touching anything.
NoInputFileExit ==
    /\ pc \in {"GetOpts", "main_help", "main_infiles", "exited"}
    /\ fopens = <<>> /\ ~driverCalled /\ files = <<>>
    /\ Exited =>
         /\ exitCode = EXIT_FAILURE
         /\ stderr # <<>> /\ stderr[Len(stderr)] = "no input file"

\* C7 as stated: oclc without positional input files ends with exit code 1
\* and "no input file" before any file is opened, any driver call is made
\* or any output file is created.
C7_Original == (Positional = <<>>) => NoInputFileExit

\* C7, amended: the same for oclc without positional input files and
\* without the help option.
C7_NoInputFile == (Positional = <<>> /\ ~HelpOption) => NoInputFileExit

\* A command line of options only, not asking for help, has been refused.
C7_Witness ==
    /\ Exited /\ exitAt = "main_infiles"
    /\ argv # <<>> /\ Positional = <<>> /\ ~HelpOption
    /\ stderr[Len(stderr)] = "no input file"

\* The last -o option of a command line that has an argument: is there one,
\* and its argument.
RECURSIVE LastOutputOption(_, _, _)
LastOutputOption(av, n, cur) ==
    IF n > Len(av) THEN cur
    ELSE IF OptChar(av[n]) # "o" THEN LastOutputOption(av, n + 1, cur)
    ELSE IF Attached(av[n]) # ""
    THEN LastOutputOption(av, n + 1, [given |-> TRUE, arg |-> Attached(av[n])])
    ELSE IF n + 1 <= Len(av)
    THEN LastOutputOption(av, n + 2, [given |-> TRUE, arg |-> av[n + 1]])
    ELSE LastOutputOption(av, n + 1, cur)

OutputOption == LastOutputOption(argv, 1, [given |-> FALSE, arg |-> ""])

\* C8 as stated: a successful run of oclc writes exactly one path, the
\* argument of the last -o option if one was given, otherwise out.clx.
C8_Original ==
    Succeeded =>
        DOMAIN files =
            {IF OutputOption.given THEN OutputOption.arg ELSE "out.clx"}

\* C8, amended: a successful run of oclc writes exactly one path, the
\* argument of the last -o option if one was given with a non-empty
\* argument, otherwise out.clx.
C8_OutputPath ==
    Succeeded =>
        DOMAIN files =
            {IF OutputOption.given /\ OutputOption.arg # ""
             THEN OutputOption.arg ELSE "out.clx"}

\* A successful run whose last -o option has the empty argument.
C8_Witness ==
    /\ Succeeded
    /\ OutputOption.given /\ OutputOption.arg = ""
    /\ "out.clx" \in DOMAIN files

(***************************************************************************)
(* Properties: oclq.                                                       *)
(***************************************************************************)
\* C5: when the driver reports zero platforms to oclq, the process ends
\* with exit code 1 and the message "there is no OpenCL platform", and
\* nothing of a platform or device block has been printed.
C5_NoPlatformFatal ==
    [][(IsQ("CountPlatforms") /\ lastRet' = 0 /\ num_platforms' = 0) =>
          /\ pc' = "exited"
          /\ exitCode' = EXIT_FAILURE
          /\ stderr' = <<"there is no OpenCL platform">>
          /\ stdout' = <<>>]_vars

\* oclq has ended because the driver reported zero platforms.
C5_Witness ==
    /\ tool = "oclq" /\ Exited /\ exitAt = "CountPlatforms"
    /\ lastRet = 0 /\ num_platforms = 0
    /\ exitCode = EXIT_FAILURE

IsPlatformHead(line) == line = "---- platform"
IsBlockHead(line) == line \in {"---- platform", "-- device"}

\* C6: a platform for which the driver reports zero devices gets no device
\* block, main goes on with the next platform, and a run that ends after
\* the platform loop has printed a block for every platform and exits 0.
C6_ZeroDevicesContinue ==
    /\ [][(IsQ("CountDevices") /\ lastRet' = 0 /\ device_num' = 0) =>
             /\ pc' = "PlatformLoop"
             /\ i' = i + 1
             /\ UNCHANGED <<stdout, stderr, exitCode>>]_vars
    /\ [](exitAt = "PlatformLoop" =>
             /\ exitCode = EXIT_SUCCESS
             /\ Len(SelectSeq(stdout, IsPlatformHead)) = num_platforms)

\* A run over two platforms, the first without devices, the second with
\* one, has ended successfully.
C6_Witness ==
    /\ Exited /\ exitAt = "PlatformLoop" /\ exitCode = EXIT_SUCCESS
    /\ SelectSeq(stdout, IsBlockHead) =
         <<"---- platform", "---- platform", "-- device">>

\* The text the specification gives for a status outside the error table.
ClaimedFallback == "unknown error"

\* C9: a driver call that returns a non-zero status makes the tool print
\* "error : " followed by the text of the error table, or by "unknown
\* error" for a status that is not in the table, and exit non-zero.
C9_ErrorLine ==
    (Exited /\ exitCode = EXIT_FAILURE /\ lastRet # 0) =>
        stderr[Len(stderr)] =
            "error : " \o (IF lastRet \in DOMAIN ErrorMessageMap
                           THEN ErrorMessageMap[lastRet] ELSE ClaimedFallback)

\* The help / version option occurs on the command line of oclq (no option
\* of oclq takes an argument).
HelpGiven == \E n \in DOMAIN argv : argv[n] \in {"-h", "--help"}
VersionGiven == \E n \in DOMAIN argv : argv[n] \in {"-V", "--version"}

\* With help or version given, oclq never calls the driver.
NoEnumeration ==
    (HelpGiven \/ VersionGiven) =>
        /\ ~driverCalled
        /\ pc \in {"GetOpts", "main_help", "main_version", "exited"}
        /\ Exited => exitCode = EXIT_SUCCESS

\* C10 as stated: with the help flag oclq prints usage and exits 0, with the
\* version flag it prints the version string and exits 0, and in both cases
\* no driver call is made, whatever other flags are present.
C10_Original ==
    /\ NoEnumeration
    /\ (Exited /\ HelpGiven) => stdout = oclq_Usage
    /\ (Exited /\ VersionGiven) => stdout = <<oclq_VersionLine>>

\* C10, amended: with the help flag oclq prints usage and exits 0, with the
\* version flag and without the help flag it prints the version string and
\* exits 0, and in both cases no driver call is made.
C10_HelpVersion ==
    /\ NoEnumeration
    /\ (Exited /\ HelpGiven) => stdout = oclq_Usage
    /\ (Exited /\ VersionGiven /\ ~HelpGiven) => stdout = <<oclq_VersionLine>>

\* oclq was given both flags and has printed the usage text.
C10_Witness ==
    /\ tool = "oclq" /\ Exited
    /\ HelpGiven /\ VersionGiven
    /\ stdout = oclq_Usage /\ exitCode = EXIT_SUCCESS

(***************************************************************************)
(* Properties: the work-item sizes of oclq's verbose device report.        *)
(***************************************************************************)
\* GetDeviceMaxWorkItemSizes has just returned to PrintDevice.
SizesReturned == lastQ.fn = "GetDeviceMaxWorkItemSizes" /\ ~lastQ.exit

\* C11 as stated: the length of the sequence the work-item sizes accessor
\* returns is the byte size the driver reported to a size probe, divided by
\* sizeof(size_t).
C11_Original ==
    SizesReturned =>
        /\ lastQ.probed
        /\ lastQ.result = lastQ.size \div sizeof_size_t

\* C11, amended: the accessor makes no size probe; the length of the
\* sequence it returns is the dimension count it was given, which is the
\* byte size of the buffer it hands to the driver divided by sizeof(size_t).
C11_LengthIsDimensions ==
    SizesReturned =>
        /\ ~lastQ.probed
        /\ lastQ.result = max_work_item_dimensions
        /\ Len(work_item_sizes) = lastQ.result
        /\ lastQ.fetched =>
             /\ lastQ.bufSize = sizeof_size_t * max_work_item_dimensions
             /\ lastQ.result = lastQ.bufSize \div sizeof_size_t

\* The accessor has fetched the sizes of a device with the most dimensions.
C11_Witness ==
    /\ SizesReturned /\ lastQ.fetched /\ lastQ.fetchRet = 0
    /\ max_work_item_dimensions = MaxDims
    /\ Len(work_item_sizes) = MaxDims

\* C12: in the verbose device report the work-item sizes step starts only
\* after the dimensions query of the same device has returned successfully,
\* the array query asks for exactly that many elements, and with zero
\* dimensions no array query is issued and an empty sequence is printed.
C12_DimensionsThenSizes ==
    [][AtDeviceLine("sizes") =>
          /\ verbose
          /\ lastQ.attr = "CL_DEVICE_MAX_WORK_ITEM_DIMENSIONS"
          /\ lastQ.fetched /\ lastQ.fetchRet = 0 /\ ~lastQ.exit
          /\ lastQ.result = max_work_item_dimensions
          /\ lastQ'.attr = "CL_DEVICE_MAX_WORK_ITEM_SIZES"
          /\ lastQ'.fetched <=> max_work_item_dimensions # 0
          /\ lastQ'.fetched =>
               lastQ'.bufSize = sizeof_size_t * max_work_item_dimensions
          /\ max_work_item_dimensions = 0 =>
               /\ UNCHANGED driverVars
               /\ work_item_sizes' = <<>>
               /\ stdout' = Append(stdout, "CL_DEVICE_MAX_WORK_ITEM_SIZES: ")
               /\ pc' = "PrintDevice"]_vars

\* The sizes line of a device with zero dimensions has been printed without
\* a query.
C12_Witness ==
    /\ SizesReturned /\ ~lastQ.fetched
    /\ verbose /\ max_work_item_dimensions = 0 /\ work_item_sizes = <<>>
    /\ driverCalled /\ lastRet = 0
    /\ stdout[Len(stdout)] = "CL_DEVICE_MAX_WORK_ITEM_SIZES: "

(***************************************************************************)
(* Properties: the order of load, compile and save in oclc.                *)
(***************************************************************************)
\* The fopen calls so far that opened for reading / for writing.
Reads == SelectSeq(fopens, LAMBDA f : f.mode = "rb")
Writes == SelectSeq(fopens, LAMBDA f : f.mode = "wb")

\* Every input file of the command line has been opened and loaded, in
\* command-line order.
AllLoaded ==
    /\ Len(Reads) = Len(infiles)
    /\ \A n \in 1..Len(Reads) : Reads[n].ok /\ Reads[n].path = infiles[n]
    /\ Len(sources) = Len(infiles)
    /\ infiles # <<>>

====
